---- MODULE Spec2Model ----
(***************************************************************************)
(* Model of the credential/token lifecycle (app/auth) and of the report    *)
(* creation with its notification hand-off (app/threat).                   *)
(*                                                                         *)
(* Requests are handled by coroutines on one event loop: a request only    *)
(* loses control at an await, so every action below is the code between    *)
(* two awaits of one request.  A request occupies a slot from the moment   *)
(* it is received until its response has been sent.                        *)
(***************************************************************************)
EXTENDS Integers, Sequences, FiniteSets, TLC

(* ------------------------------ bounds --------------------------------- *)
MaxTime == 2              \* the clock runs over 0..MaxTime (minutes)
NumSalts == 2             \* distinct values bcrypt.gensalt() may return
NumJtis == 1              \* distinct values uuid.uuid4() may return
MaxReports == 2           \* rows the report table may hold
jwt_lifetime_minutes == 1 \* settings.jwt_lifetime_minutes of the deployment
MaxPage == 3              \* page numbers run over 1..MaxPage
MaxPageSize == 3          \* page sizes run over 1..MaxPageSize

Slots == {"r1", "r2"}      \* the requests in flight at the same time
Salts == 1..NumSalts
Jtis == 1..NumJtis

(* ----------------------------- constants ------------------------------- *)
TOKEN_TYPE == "Bearer"
INVALID_CREDENTIALS == "Invalid email or password"
SUCCESS_REGISTER_MESSAGE == "Registration has been successful"
TOKEN_EXPIRED == "The authentication token has expired"
INVALID_TOKEN == "The authentication token is invalid or malformed"
AUTHENTICATION_REQUIRED == "Authentication is required to access this resource"
INVALID_AUTH_SCHEME == "Authentication scheme must be Bearer"
INTERNAL_TOKEN_ERROR == "Internal error generating token. Check the logs for more info."
INTERNAL_SERVER_ERROR == "An unexpected error occurred on the server."
SUCCESSFUL_CREATION == "Threat report have been created successfully"
SUCCESSFUL_RETRIEVAL == "Threat report have been retrieved successfully"
THREAT_REPORT_EXCHANGE_NAME == "threat_report_exchange"

DUPLICATE_KEY_TEXT == "duplicate key value violates unique constraint"
USERNAME_KEY == "auth__user_username_key"
EMAIL_KEY == "auth__user_email_key"
PRIMARY_KEY == "auth__user_pkey"
NOT_NULL_TEXT == "violates not-null constraint"
DUPLICATE_USERNAME_MESSAGE == "User with this username already exists"
DUPLICATE_EMAIL_MESSAGE == "User with this email already exists"

PrivateKey == "jwt_private_key"
ForeignKey == "foreign_private_key"
NoKey == "None"

(* ------------------------------ inputs --------------------------------- *)
\* A username is any string; one of them is the text of a constraint name.
Usernames == {"alice", USERNAME_KEY}
Emails == {"alice@x.com", "bob@x.com"}
Passwords == {"pw123", "wrong"}

\* Two passwords of 73 bytes that differ in their last byte only, and the
\* 72 bytes they begin with.
LongPassword1 == "aaaaaaaaaaaaaaaaaaaaaaaaaaaaaaaaaaaaaaaaaaaaaaaaaaaaaaaaaaaaaaaaaaaaaaaa1"
LongPassword2 == "aaaaaaaaaaaaaaaaaaaaaaaaaaaaaaaaaaaaaaaaaaaaaaaaaaaaaaaaaaaaaaaaaaaaaaaa2"
LongPasswordPrefix == "aaaaaaaaaaaaaaaaaaaaaaaaaaaaaaaaaaaaaaaaaaaaaaaaaaaaaaaaaaaaaaaaaaaaaaaa"
LongPasswords == {LongPassword1, LongPassword2}

(* ---------------------------- exceptions ------------------------------- *)
\* The exception handler registered for an exception class, by its bases.
UnauthorizedErrors == {"UnauthorizedError", "InvalidUserCredentials", "InternalTokenError"}
DoesNotExistErrors == {"DoesNotExistError", "UserDoesNotExistError", "ThreatReportDoesNotExistsError"}
DuplicateResourceErrors == {"DuplicateResourceError", "DuplicateUserError"}

StatusCodeOf(cls) ==
  IF cls \in UnauthorizedErrors THEN 401
  ELSE IF cls \in DoesNotExistErrors THEN 404
  ELSE IF cls \in DuplicateResourceErrors THEN 409
  ELSE 500

StatusOf(code) ==
  IF code = 401 THEN "unauthorized"
  ELSE IF code = 404 THEN "not_found"
  ELSE IF code = 409 THEN "conflict"
  ELSE "error"

\* Responses have one shape; the optional parts are sets of at most one value.
Response(code, status, error, message) ==
  [code |-> code, status |-> status, error |-> error, message |-> message,
   user |-> {}, token |-> {}, type |-> "", report |-> {}]

NoResponse == Response(0, "", "", "")

\* What the client receives when exception class cls with text msg leaves
\* the route: the handler of its class answers with str(exc), the handler
\* of Exception with the generic message.
ExceptionResponse(cls, msg) ==
  LET code == StatusCodeOf(cls) IN
  Response(code, StatusOf(code), cls,
           IF code = 500 THEN INTERNAL_SERVER_ERROR ELSE msg)


(* ------------------------------- state --------------------------------- *)
VARIABLES
  users,        \* committed rows of table auth__user
  nextUserId,   \* next value of the auth__user id sequence
  reports,      \* committed rows of table threat__threat_report
  nextReportId, \* next value of the threat__threat_report id sequence
  published,    \* messages the broker accepted, in order
  exchanges,    \* exchanges declared on the broker
  client_token, \* the token the client kept from its last login, if any
  now,          \* the clock, in minutes
  rq            \* the request held by each slot

vars == <<users, nextUserId, reports, nextReportId, published, exchanges, client_token, now, rq>>

IdleRequest ==
  [op |-> "idle", via |-> "", pc |-> "idle",
   username |-> "", email |-> "", password |-> "",
   hashed |-> {}, user |-> {},
   registered |-> {},  \* history: the rows with this email when login was received
   violated |-> {},    \* history: the constraints the insert of register violated
   verify_time |-> 0,  \* history: the time at which the dependency ran
   signing |-> "",     \* history: how the signing of grant_token went
   credentials |-> {}, verify_attempted |-> FALSE, verified |-> FALSE,
   handler_ran |-> FALSE,
   input |-> {}, report |-> {}, report_id |-> 0,
   instance_state |-> FALSE,
   connection |-> "none", connection_id |-> "", channel |-> FALSE, exchange |-> FALSE,
   publish_attempts |-> 0, logged |-> {},
   page |-> 0, page_size |-> 0, query |-> <<>>,
   txn |-> "none",     \* the transaction of the request's session
   session |-> "closed", \* the session of get_async_db_session: no slot
                         \* that is free has one open
   resp |-> NoResponse]

\* The program points inside a data-access operation.
DalPcs == {"create_user", "get_user_by_email", "create_threat_report", "get_threat_report"}

\* `async with self.db_session.begin()` is entered: the operation's
\* transaction begins, and its statement has not run yet.
BeginTransaction(s) ==
  /\ rq[s].pc \in DalPcs /\ rq[s].txn = "none"
  /\ rq' = [rq EXCEPT ![s].txn = "begun"]
  /\ UNCHANGED <<users, nextUserId, reports, nextReportId, published, exchanges, client_token, now>>

\* An exit of the block that leaves the transaction as it is when the
\* block raised.
end_transaction_LeftOpen(raised) == IF raised THEN "begun" ELSE "committed"

\* The exit of `async with self.db_session.begin()`: a commit when the block
\* ends normally, a rollback when it raises.
end_transaction(raised) == IF raised THEN "rolled_back" ELSE "committed"

(* --------------------------- password hasher --------------------------- *)
\* What bcrypt does with a password of more than 72 bytes depends on the
\* installed release: it uses the first 72 bytes, or it raises ValueError.
BcryptBuilds == {"truncates", "raises"}

\* The bytes of password.encode("utf-8") that bcrypt's key schedule uses.
KeyBytes(password) ==
  IF password \in LongPasswords THEN LongPasswordPrefix ELSE password

\* Whether bcrypt as built raises ValueError for the password.
BcryptRaises(password, build) ==
  build = "raises" /\ KeyBytes(password) # password

\* bcrypt.hashpw: the hash carries the salt it was made with.
hashpw(password, salt) == [salt |-> salt, digest |-> <<salt, KeyBytes(password)>>]

\* AuthService.hash_password with the salt bcrypt.gensalt() returned.
hash_password(password, salt) == hashpw(password, salt)

\* AuthService.check_password: bcrypt.checkpw hashes the candidate with the
\* salt of the stored hash and compares the two hashes.
check_password(password, hashed_password) ==
  hashpw(password, hashed_password.salt) = hashed_password

\* Variant: only the username column is unique.
ViolatedConstraints_UsernameOnly(rows, username, email) ==
  {c \in {USERNAME_KEY} : \E u \in rows : u.username = username}

\* The unique constraints of User.username and User.email that an insert of
\* (username, email) would violate, over all rows whatever their is_active.
ViolatedConstraints(rows, username, email) ==
  {c \in {USERNAME_KEY, EMAIL_KEY} :
     \/ c = USERNAME_KEY /\ \E u \in rows : u.username = username
     \/ c = EMAIL_KEY /\ \E u \in rows : u.email = email}

\* str(exc) of the IntegrityError of a failed insert: the driver's message
\* with the name of the violated constraint, then the statement's parameters.
IntegrityErrorText(constraint, username, email) ==
  <<DUPLICATE_KEY_TEXT, constraint, username, email>>

\* The integrity violations of the insert other than those of the username
\* and the email constraint: a duplicate primary key, a null in a column.
OtherViolations ==
  {[constraint |-> PRIMARY_KEY, text |-> DUPLICATE_KEY_TEXT],
   [constraint |-> "hashed_password", text |-> NOT_NULL_TEXT]}

\* str(exc) of the IntegrityError of such a violation.
OtherIntegrityErrorText(violation, username, email) ==
  <<violation.text, violation.constraint, username, email>>

\* Python's `needle in text`.
Contains(needle, text) == \E i \in 1..Len(text) : text[i] = needle

\* Variant: every IntegrityError is raised again as it is.
handle_integrity_error_Reraises(text) ==
  [error |-> "IntegrityError", message |-> "IntegrityError"]

\* AuthDataAccessLayer.handle_integrity_error: the exception it raises.
handle_integrity_error(text) ==
  IF Contains(DUPLICATE_KEY_TEXT, text) /\ Contains(USERNAME_KEY, text)
    THEN [error |-> "DuplicateUserError", message |-> DUPLICATE_USERNAME_MESSAGE]
  ELSE IF Contains(DUPLICATE_KEY_TEXT, text) /\ Contains(EMAIL_KEY, text)
    THEN [error |-> "DuplicateUserError", message |-> DUPLICATE_EMAIL_MESSAGE]
  ELSE [error |-> "IntegrityError", message |-> "IntegrityError"]

\* Variant: the insert without a value for is_active becoming true.
NewUser_Inactive(id, username, email, hashed_password) ==
  [id |-> id, username |-> username, email |-> email,
   hashed_password |-> hashed_password, is_active |-> FALSE]

\* The row an insert of create_user's statement stores and returns.
NewUser(id, username, email, hashed_password) ==
  [id |-> id, username |-> username, email |-> email,
   hashed_password |-> hashed_password, is_active |-> TRUE]

\* AuthDataAccessLayer.handle_no_result_found_error: the exception it raises.
handle_no_result_found_error ==
  [error |-> "UserDoesNotExistError", message |-> "User does not exists."]

\* Variant: authenticate without its except clause.
authenticate_lookup_error_Unmapped(exc) == exc

\* AuthService.authenticate: what leaves it when get_user_by_email raised exc.
authenticate_lookup_error(exc) ==
  IF exc.error = "UserDoesNotExistError"
    THEN [error |-> "InvalidUserCredentials", message |-> INVALID_CREDENTIALS]
    ELSE exc

\* AuthService.authenticate: what it raises when check_password is false.
authenticate_password_error ==
  [error |-> "InvalidUserCredentials", message |-> INVALID_CREDENTIALS]

\* The rows the statement would select without its filter on is_active.
SelectUserByEmail_AnyFlag(rows, email) ==
  {u \in rows : u.email = email}

\* The rows get_user_by_email's statement selects.
SelectUserByEmail(rows, email) ==
  {u \in rows : u.email = email /\ u.is_active = TRUE}

(* ------------------------------ tokens --------------------------------- *)
\* TokenService._add_timedelta
_add_timedelta(dtm, minutes) == dtm + minutes

\* Variant: the subject is not taken from the user.
_generate_payload_FixedSub(user, t, jti, lifetime) ==
  [sub |-> 1, aud |-> <<"all">>, iat |-> t, nbf |-> t,
   exp |-> t + lifetime,
   jti |-> jti, issue |-> "rental_house_fastapi"]

\* TokenService._generate_payload at time t, with the jti uuid4() returned
\* and settings.jwt_lifetime_minutes being lifetime.
_generate_payload(user, t, jti, lifetime) ==
  [sub |-> user.id, aud |-> <<"all">>, iat |-> t, nbf |-> t,
   exp |-> _add_timedelta(t, lifetime),
   jti |-> jti, issue |-> "rental_house_fastapi"]

\* jwt.encode: the payload with a signature only the key's holder can make.
jwt_encode(payload, key) == [payload |-> payload, signed_with |-> key]

\* TokenService.grant_token with settings.jwt_private_key being key, and
\* jwt.encode accepting the payload or raising TypeError: the exception it
\* ends with ("" when it returns) and the dictionary it returns.
grant_token(user, t, jti, key, accepted, lifetime) ==
  IF key = NoKey
    THEN [error |-> "AssertionError", message |-> "JWT private key is not set.",
          access_token |-> {}, type |-> ""]
  ELSE IF ~accepted
    THEN [error |-> "InternalTokenError", message |-> INTERNAL_TOKEN_ERROR,
          access_token |-> {}, type |-> ""]
  ELSE [error |-> "", message |-> "",
        access_token |-> {jwt_encode(_generate_payload(user, t, jti, lifetime), key)},
        type |-> TOKEN_TYPE]

(* ------------------------------- Init ---------------------------------- *)
Init ==
  /\ users = {}
  /\ nextUserId = 1
  /\ reports = {}
  /\ nextReportId = 1
  /\ published = <<>>
  /\ exchanges = {}
  /\ client_token = {}
  /\ now = 0
  /\ rq = [s \in Slots |-> IdleRequest]

(* --------------------------- POST /register ---------------------------- *)
\* The route receives a validated UserRegisterInput.
ReceiveRegister(s, username, email, password) ==
  /\ rq[s].op = "idle"
  /\ rq' = [rq EXCEPT ![s] = [IdleRequest EXCEPT
              !.op = "register", !.via = "router", !.pc = "hash_password",
              !.session = "open",
              !.username = username, !.email = email, !.password = password]]
  /\ UNCHANGED <<users, nextUserId, reports, nextReportId, published, exchanges, client_token, now>>

\* AuthService.register up to the end of run_in_threadpool(hash_password).
\* bcrypt is one of builds.
RegisterHashPassword(s, builds) ==
  /\ rq[s].op = "register" /\ rq[s].pc = "hash_password"
  /\ \E salt \in Salts, raises \in {BcryptRaises(rq[s].password, b) : b \in builds} :
       IF raises
       THEN rq' = [rq EXCEPT ![s].pc = "done",
                     ![s].resp = ExceptionResponse("ValueError",
                                   "password cannot be longer than 72 bytes")]
       ELSE rq' = [rq EXCEPT ![s].hashed = {hash_password(rq[s].password, salt)},
                             ![s].pc = "create_user"]
  /\ UNCHANGED <<users, nextUserId, reports, nextReportId, published, exchanges, client_token, now>>

\* AuthDataAccessLayer.create_user and the return of AuthService.register:
\* the insert in its transaction, committed, or rolled back on an
\* IntegrityError that handle_integrity_error turns into the raised error.
\* The deployment D gives the other integrity violations the insert may meet.
CreateUser(s, D) ==
  /\ rq[s].op = "register" /\ rq[s].pc = "create_user"
  /\ LET r == rq[s]
         violated == ViolatedConstraints(users, r.username, r.email)
     IN IF violated = {}
        THEN LET user == NewUser(nextUserId, r.username, r.email,
                                 CHOOSE h \in r.hashed : TRUE)
             IN \/ /\ users' = users \cup {user}
                   /\ nextUserId' = nextUserId + 1
                   /\ rq' = [rq EXCEPT ![s].pc = "done",
                               ![s].txn = end_transaction(FALSE),
                               ![s].resp = [Response(201, "created", "", SUCCESS_REGISTER_MESSAGE)
                                              EXCEPT !.user = {user}]]
                \/ \E v \in D.violations :
                     LET exc == handle_integrity_error(
                                  OtherIntegrityErrorText(v, r.username, r.email))
                     IN /\ rq' = [rq EXCEPT ![s].pc = "done",
                                    ![s].txn = end_transaction(TRUE),
                                    ![s].violated = {v.constraint},
                                    ![s].resp = ExceptionResponse(exc.error, exc.message)]
                        /\ UNCHANGED <<users, nextUserId>>
        ELSE \E c \in violated :
               LET exc == handle_integrity_error(
                            IntegrityErrorText(c, r.username, r.email))
               IN /\ rq' = [rq EXCEPT ![s].pc = "done", ![s].violated = violated,
                              ![s].txn = end_transaction(TRUE),
                              ![s].resp = ExceptionResponse(exc.error, exc.message)]
                  /\ UNCHANGED <<users, nextUserId>>
  /\ UNCHANGED <<reports, nextReportId, published, exchanges, client_token, now>>

(* ---------------------------- POST /login ------------------------------ *)
\* The route receives a validated UserAuthenticateInput.
ReceiveLogin(s, email, password) ==
  /\ rq[s].op = "idle"
  /\ rq' = [rq EXCEPT ![s] = [IdleRequest EXCEPT
              !.op = "authenticate", !.via = "router", !.pc = "get_user_by_email",
              !.session = "open",
              !.email = email, !.password = password,
              !.registered = {u \in users : u.email = email}]]
  /\ UNCHANGED <<users, nextUserId, reports, nextReportId, published, exchanges, client_token, now>>

\* Variant: the lookup takes the row it reads out of the table.
GetUserByEmail_Consuming(s) ==
  /\ rq[s].op = "authenticate" /\ rq[s].pc = "get_user_by_email"
  /\ LET found == SelectUserByEmail(users, rq[s].email)
     IN IF Cardinality(found) = 1
        THEN rq' = [rq EXCEPT ![s].user = found, ![s].pc = "check_password",
                              ![s].txn = end_transaction(FALSE)]
        ELSE IF found = {}
        THEN LET exc == authenticate_lookup_error(handle_no_result_found_error)
             IN rq' = [rq EXCEPT ![s].pc = "done",
                         ![s].txn = end_transaction(TRUE),
                         ![s].resp = ExceptionResponse(exc.error, exc.message)]
        ELSE rq' = [rq EXCEPT ![s].pc = "done",
                      ![s].txn = end_transaction(TRUE),
                      ![s].resp = ExceptionResponse("MultipleResultsFound", "")]
  /\ users' = users \ SelectUserByEmail(users, rq[s].email)
  /\ UNCHANGED <<nextUserId, reports, nextReportId, published, exchanges, client_token, now>>

\* AuthService.authenticate up to the return of get_user_by_email:
\* scalar_one() of the selected rows, NoResultFound becoming
\* UserDoesNotExistError and that becoming InvalidUserCredentials.
GetUserByEmail(s) ==
  /\ rq[s].op = "authenticate" /\ rq[s].pc = "get_user_by_email"
  /\ LET found == SelectUserByEmail(users, rq[s].email)
     IN IF Cardinality(found) = 1
        THEN rq' = [rq EXCEPT ![s].user = found, ![s].pc = "check_password",
                              ![s].txn = end_transaction(FALSE)]
        ELSE IF found = {}
        THEN LET exc == authenticate_lookup_error(handle_no_result_found_error)
             IN rq' = [rq EXCEPT ![s].pc = "done",
                         ![s].txn = end_transaction(TRUE),
                         ![s].resp = ExceptionResponse(exc.error, exc.message)]
        ELSE rq' = [rq EXCEPT ![s].pc = "done",
                      ![s].txn = end_transaction(TRUE),
                      ![s].resp = ExceptionResponse("MultipleResultsFound", "")]
  /\ UNCHANGED <<users, nextUserId, reports, nextReportId, published, exchanges, client_token, now>>

\* check_password is entered: authenticate calls it directly, with no await
\* and no thread pool, so it runs in the coroutine that holds the event loop.
BeginCheckPassword(s) ==
  /\ rq[s].op = "authenticate" /\ rq[s].pc = "check_password"
  /\ rq' = [rq EXCEPT ![s].pc = "checking_password"]
  /\ UNCHANGED <<users, nextUserId, reports, nextReportId, published, exchanges, client_token, now>>

\* The rest of AuthService.authenticate, which has no await: check_password
\* and, on a match, TokenService.grant_token.
\* The deployment D gives the private keys, jwt.encode's acceptances, the
\* bcrypt builds and the token lifetimes the request may meet.
CheckPasswordAndGrantToken(s, D) ==
  /\ rq[s].op = "authenticate" /\ rq[s].pc \in {"check_password", "checking_password"}
  /\ \E raises \in {BcryptRaises(rq[s].password, b) : b \in D.builds},
        jti \in Jtis, key \in D.keys, accepted \in D.accepts,
        lifetime \in D.lifetimes :
       LET user == CHOOSE u \in rq[s].user : TRUE
           granted == grant_token(user, now, jti, key, accepted, lifetime)
       IN IF raises
          THEN rq' = [rq EXCEPT ![s].pc = "done",
                        ![s].resp = ExceptionResponse("ValueError",
                                      "password cannot be longer than 72 bytes")]
          ELSE IF ~check_password(rq[s].password, user.hashed_password)
          THEN rq' = [rq EXCEPT ![s].pc = "done",
                        ![s].resp = ExceptionResponse(authenticate_password_error.error,
                                                      authenticate_password_error.message)]
          ELSE rq' = [rq EXCEPT ![s].pc = "done",
                        ![s].signing = IF key = NoKey THEN "no_key"
                                       ELSE IF ~accepted THEN "rejected"
                                       ELSE "signed",
                        ![s].resp = IF granted.error # ""
                                    THEN ExceptionResponse(granted.error, granted.message)
                                    ELSE [Response(200, "", "", "")
                                            EXCEPT !.token = granted.access_token,
                                                   !.type = granted.type]]
  /\ UNCHANGED <<users, nextUserId, reports, nextReportId, published, exchanges, client_token, now>>

\* A user is deactivated: the row's is_active column is set to false by
\* whoever administers the table; no route of the service does it.
Deactivate(id) ==
  /\ \E u \in users :
       /\ u.id = id /\ u.is_active = TRUE
       /\ users' = (users \ {u}) \cup {[u EXCEPT !.is_active = FALSE]}
  /\ UNCHANGED <<nextUserId, reports, nextReportId, published, exchanges, client_token, now, rq>>

(* ------------------------------ common --------------------------------- *)
\* A teardown that closes the session on a normal return only.
get_async_db_session_finally_OnReturn(raised) ==
  IF raised = "" THEN "closed" ELSE "open"

\* The teardown of get_async_db_session when the exception named raised
\* ("" for none) comes out of the request: `finally: await db_session.close()`.
get_async_db_session_finally(raised) == "closed"

\* The teardown of the session dependency of request s, before its slot is
\* given to another request.
CloseSession(s) ==
  /\ rq[s].pc = "done" /\ rq[s].session = "open"
  /\ rq' = [rq EXCEPT ![s].session = get_async_db_session_finally(rq[s].resp.error)]
  /\ UNCHANGED <<users, nextUserId, reports, nextReportId, published, exchanges, client_token, now>>

\* The response of a finished request is sent and its slot is free again;
\* the client keeps the token of a successful login.
SendResponse(s) ==
  /\ rq[s].pc = "done"
  /\ rq' = [rq EXCEPT ![s] = [IdleRequest EXCEPT !.session =
               IF rq[s].session = "open"
                 THEN get_async_db_session_finally(rq[s].resp.error)
                 ELSE rq[s].session]]
  /\ client_token' = IF rq[s].resp.token # {} THEN rq[s].resp.token ELSE client_token
  /\ UNCHANGED <<users, nextUserId, reports, nextReportId, published, exchanges, now>>

\* Time passes.
Tick ==
  /\ now < MaxTime
  /\ now' = now + 1
  /\ UNCHANGED <<users, nextUserId, reports, nextReportId, published, exchanges, client_token, rq>>



(* ------------------------- /threats: the router ------------------------ *)
\* Variant: the router declares no dependency.
RouterDependencies_None == {}

\* The dependencies the /threats router declares for all of its routes.
RouterDependencies == {"verify_token_dependency"}

\* The attributes class TokenService defines.
TokenServiceAttributes ==
  {"TOKEN_TYPE", "grant_token", "_generate_payload", "_get_current_datetime",
   "_add_timedelta"}

\* str.lower() on the authorization schemes a client may send.
Schemes == {"Bearer", "bearer", "Basic"}
lower(str) ==
  IF str \in {"Bearer", "bearer"} THEN "bearer"
  ELSE IF str = "Basic" THEN "basic"
  ELSE str

\* A token that is no signed claims set at all.
MalformedToken ==
  [payload |-> [sub |-> 0, aud |-> <<>>, iat |-> 0, nbf |-> 0, exp |-> 0,
                jti |-> 0, issue |-> ""],
   signed_with |-> "none"]

\* The tokens a client can present: the one login gave it, that token's
\* claims signed with a key of its own, or something that is not a token.
PresentableTokens(held) ==
  held \cup {jwt_encode(t.payload, ForeignKey) : t \in held} \cup {MalformedToken}

\* The HTTPAuthorizationCredentials a request may carry (none: the empty set).
PresentableCredentials(held) ==
  {{}} \cup {{[scheme |-> sch, credentials |-> tok]} :
               sch \in Schemes, tok \in PresentableTokens(held)}

\* Variant: the scheme is not compared before the token is verified.
verify_token_dependency_NoSchemeCheck(credentials) ==
  IF credentials = {}
    THEN [error |-> "UnauthorizedError", message |-> AUTHENTICATION_REQUIRED,
          attempted |-> FALSE]
  ELSE IF "verify_token" \notin TokenServiceAttributes
    THEN [error |-> "AttributeError",
          message |-> "'TokenService' object has no attribute 'verify_token'",
          attempted |-> TRUE]
  ELSE [error |-> "", message |-> "", attempted |-> TRUE]

\* verify_token_dependency: the exception it ends with ("" when it returns),
\* and whether it reached the call of token_service.verify_token.
verify_token_dependency(credentials) ==
  IF credentials = {}
    THEN [error |-> "UnauthorizedError", message |-> AUTHENTICATION_REQUIRED,
          attempted |-> FALSE]
  ELSE LET c == CHOOSE x \in credentials : TRUE IN
    IF lower(c.scheme) # lower(TOKEN_TYPE)
      THEN [error |-> "UnauthorizedError", message |-> INVALID_AUTH_SCHEME,
            attempted |-> FALSE]
    ELSE IF "verify_token" \notin TokenServiceAttributes
      THEN [error |-> "AttributeError",
            message |-> "'TokenService' object has no attribute 'verify_token'",
            attempted |-> TRUE]
    ELSE [error |-> "", message |-> "", attempted |-> TRUE]

\* Where a request to a /threats route starts: at the router's dependency
\* when it comes over HTTP, in the service method when that is called directly.
EntryPc(via, handler) ==
  IF via = "router" /\ "verify_token_dependency" \in RouterDependencies
    THEN "verify_token_dependency"
    ELSE handler

\* The session dependency of the handler is entered once the dependencies of
\* the router have passed: with the request when there is none to pass.
SessionAtEntry(via, handler) ==
  IF EntryPc(via, handler) = handler THEN "open" ELSE "closed"

\* The ThreatReportInputSchema values of the model.
ReportInputs ==
  {[indicator_type |-> "IP", indicator_address |-> "10.0.0.1"],
   [indicator_type |-> "URL", indicator_address |-> "http://x.test"]}

\* POST /threats/reports is received, or the service method is called.
ReceiveCreateReport(s, via, credentials, input) ==
  /\ rq[s].op = "idle"
  /\ Cardinality(reports) < MaxReports
  /\ rq' = [rq EXCEPT ![s] = [IdleRequest EXCEPT
              !.op = "create_report", !.via = via,
              !.pc = EntryPc(via, "create_threat_report"),
              !.session = SessionAtEntry(via, "create_threat_report"),
              !.credentials = credentials, !.input = {input}]]
  /\ UNCHANGED <<users, nextUserId, reports, nextReportId, published, exchanges, client_token, now>>

\* GET /threats/reports/{id} is received, or the service method is called.
ReceiveGetReport(s, via, credentials, id) ==
  /\ rq[s].op = "idle"
  /\ rq' = [rq EXCEPT ![s] = [IdleRequest EXCEPT
              !.op = "get_report", !.via = via,
              !.pc = EntryPc(via, "get_threat_report"),
              !.session = SessionAtEntry(via, "get_threat_report"),
              !.credentials = credentials, !.report_id = id]]
  /\ UNCHANGED <<users, nextUserId, reports, nextReportId, published, exchanges, client_token, now>>

\* The router runs verify_token_dependency before the route's handler.
VerifyTokenDependency(s) ==
  /\ rq[s].pc = "verify_token_dependency"
  /\ LET out == verify_token_dependency(rq[s].credentials)
     IN IF out.error = ""
        THEN rq' = [rq EXCEPT ![s].verify_attempted = out.attempted,
                              ![s].verify_time = now,
                              ![s].verified = TRUE,
                              ![s].session = "open",
                              ![s].pc = IF rq[s].op = "create_report"
                                          THEN "create_threat_report"
                                          ELSE "get_threat_report"]
        ELSE rq' = [rq EXCEPT ![s].verify_attempted = out.attempted,
                              ![s].verify_time = now,
                              ![s].pc = "done",
                              ![s].resp = ExceptionResponse(out.error, out.message)]
  /\ UNCHANGED <<users, nextUserId, reports, nextReportId, published, exchanges, client_token, now>>


(* --------------------------- report store ------------------------------ *)
\* The row the insert of create_threat_report stores and returns; created_at
\* is the server's now().
NewReport(id, input, t) ==
  [id |-> id, indicator_type |-> input.indicator_type,
   indicator_address |-> input.indicator_address, created_at |-> t]

\* Variant: the statement without its where clause.
SelectReportById_All(rows, id) == rows

\* The rows get_threat_report's statement selects.
SelectReportById(rows, id) == {r \in rows : r.id = id}

(* ------------------------ notification publisher ----------------------- *)
\* Variant: the member's name is written in place of its value.
ThreatTypeValue_Name(name) == name

\* ThreatType: the value of each member.
ThreatTypeValue(name) ==
  IF name = "IP" THEN "ip"
  ELSE IF name = "EMAIL" THEN "email"
  ELSE IF name = "DOMAIN" THEN "domain"
  ELSE IF name = "FILE" THEN "file"
  ELSE IF name = "URL" THEN "url"
  ELSE "user_agent"

\* The __dict__ of a ThreatReport instance: its column values and SQLAlchemy's
\* _sa_instance_state.
InstanceDict(report, instance_state) ==
  [report |-> report, instance_state |-> instance_state]

\* Variant: the pop takes the id away with the instance state.
pop_instance_state_AndId(threat_dict) ==
  [report |-> {[x EXCEPT !.id = 0] : x \in threat_dict.report},
   instance_state |-> FALSE]

\* `threat_dict = self.__dict__; threat_dict.pop("_sa_instance_state", None)`:
\* the instance's own dictionary after to_bytes has run on it.
pop_instance_state(threat_dict) ==
  [threat_dict EXCEPT !.instance_state = FALSE]

\* ThreatReport.to_bytes: the JSON object of the instance's columns, the
\* enum written as its value and the datetime through str().
to_bytes(report) ==
  [id |-> report.id, indicator_type |-> ThreatTypeValue(report.indicator_type),
   indicator_address |-> report.indicator_address,
   created_at |-> <<"str", report.created_at>>]

\* ThreatReportProducer._get_new_threat_report_routing_key
_get_new_threat_report_routing_key == "threat_report.new"

\* The Message produce_new_threat_report builds and where it publishes it.
NewThreatReportMessage(report) ==
  [exchange |-> THREAT_REPORT_EXCHANGE_NAME,
   routing_key |-> _get_new_threat_report_routing_key,
   delivery_mode |-> "PERSISTENT",
   body |-> to_bytes(report)]

\* AsyncRabbitmqManager.declare_exchange as declare_threat_report_exchange
\* calls it: the exchange it declares.
ThreatReportExchange ==
  [name |-> THREAT_REPORT_EXCHANGE_NAME, type |-> "direct", durable |-> TRUE,
   auto_delete |-> FALSE]

(* -------------------------- report orchestrator ------------------------ *)
\* The dictionary create_threat_and_notify_threat_report returns, as the
\* route answers it.
CreatedResponse(report) ==
  [Response(201, "created", "", SUCCESSFUL_CREATION) EXCEPT !.report = {report}]

\* Variant: the call of the producer without try/except.
PublishFailure_Propagates(r, step) ==
  [r EXCEPT !.pc = "done",
            !.connection = IF r.connection = "open" THEN "closed" ELSE r.connection,
            !.resp = ExceptionResponse("AMQPError", step)]

\* The except branch of create_threat_and_notify_threat_report, entered by
\* an exception of the producer: the connection's context manager has
\* closed an open connection, the error is logged and the method returns.
PublishFailure(r, step) ==
  [r EXCEPT !.pc = "done",
            !.connection = IF r.connection = "open" THEN "closed" ELSE r.connection,
            !.logged = {step},
            !.resp = CreatedResponse(CHOOSE x \in r.report : TRUE)]

\* Variant: the publisher is called with the new row before its insert is
\* committed.
CreateThreatReport_NotifyFirst(s) ==
  /\ rq[s].op = "create_report" /\ rq[s].pc = "create_threat_report"
  /\ LET report == NewReport(nextReportId, CHOOSE i \in rq[s].input : TRUE, now)
     IN /\ nextReportId' = nextReportId + 1
        /\ rq' = [rq EXCEPT ![s].handler_ran = TRUE,
                            ![s].report = {report},
                            ![s].instance_state = TRUE,
                            ![s].pc = "get_connection"]
  /\ UNCHANGED <<users, nextUserId, reports, published, exchanges, client_token, now>>

\* ThreatReportDataAccessLayer.create_threat_report, awaited by the service
\* before its try block: the insert is committed and the service goes on to
\* the producer, or the statement or the commit fails, the transaction is
\* rolled back and the error leaves the service.
CreateThreatReport(s) ==
  /\ rq[s].op = "create_report" /\ rq[s].pc = "create_threat_report"
  /\ \E committed \in BOOLEAN :
       LET report == NewReport(nextReportId, CHOOSE i \in rq[s].input : TRUE, now)
       IN IF committed
          THEN /\ reports' = reports \cup {report}
               /\ nextReportId' = nextReportId + 1
               /\ rq' = [rq EXCEPT ![s].handler_ran = TRUE,
                                   ![s].report = {report},
                                   ![s].instance_state = TRUE,
                                   ![s].txn = end_transaction(FALSE),
                                   ![s].pc = "get_connection"]
          ELSE /\ rq' = [rq EXCEPT ![s].handler_ran = TRUE,
                                   ![s].pc = "done",
                                   ![s].txn = end_transaction(TRUE),
                                   ![s].resp = ExceptionResponse("SQLAlchemyError",
                                                                 "insert failed")]
               /\ UNCHANGED <<reports, nextReportId>>
  /\ UNCHANGED <<users, nextUserId, published, exchanges, client_token, now>>

\* Variant: the manager hands every caller the one connection it keeps.
get_connection_Pooled(caller) == "pool"

\* AsyncRabbitmqManager.get_connection: connect_robust makes a connection of
\* its own for the call that asked for it.
get_connection(caller) == caller

\* produce_new_threat_report: rabbitmq_manager.get_connection().
ProducerGetConnection(s) ==
  /\ rq[s].pc = "get_connection"
  /\ \E ok \in BOOLEAN :
       rq' = [rq EXCEPT ![s] =
                IF ok THEN [rq[s] EXCEPT !.connection = "open",
                                         !.connection_id = get_connection(s),
                                         !.pc = "get_channel"]
                ELSE PublishFailure(rq[s], "get_connection")]
  /\ UNCHANGED <<users, nextUserId, reports, nextReportId, published, exchanges, client_token, now>>

\* produce_new_threat_report: rabbitmq_manager.get_channel(connection).
ProducerGetChannel(s) ==
  /\ rq[s].pc = "get_channel"
  /\ \E ok \in BOOLEAN :
       rq' = [rq EXCEPT ![s] =
                IF ok THEN [rq[s] EXCEPT !.channel = TRUE, !.pc = "declare_exchange"]
                ELSE PublishFailure(rq[s], "get_channel")]
  /\ UNCHANGED <<users, nextUserId, reports, nextReportId, published, exchanges, client_token, now>>

\* produce_new_threat_report: declare_threat_report_exchange(channel).
ProducerDeclareExchange(s) ==
  /\ rq[s].pc = "declare_exchange"
  /\ \E ok \in BOOLEAN :
       IF ok
       THEN /\ exchanges' = exchanges \cup {ThreatReportExchange}
            /\ rq' = [rq EXCEPT ![s].exchange = TRUE, ![s].pc = "publish"]
       ELSE /\ rq' = [rq EXCEPT ![s] = PublishFailure(rq[s], "declare_exchange")]
            /\ UNCHANGED exchanges
  /\ UNCHANGED <<users, nextUserId, reports, nextReportId, published, client_token, now>>

\* Variant: the message is published a second time.
ProducerPublish_Twice(s) ==
  /\ rq[s].pc = "publish"
  /\ LET threat_dict == pop_instance_state(
                          InstanceDict(rq[s].report, rq[s].instance_state))
         r == [rq[s] EXCEPT !.report = threat_dict.report,
                            !.instance_state = threat_dict.instance_state,
                            !.publish_attempts = rq[s].publish_attempts + 1]
         message == NewThreatReportMessage(CHOOSE x \in r.report : TRUE)
     IN \E ok \in BOOLEAN :
          IF ok
          THEN /\ published' = Append(Append(published, message), message)
               /\ rq' = [rq EXCEPT ![s] =
                           [r EXCEPT !.pc = "done", !.connection = "closed",
                                     !.resp = CreatedResponse(CHOOSE x \in r.report : TRUE)]]
          ELSE /\ rq' = [rq EXCEPT ![s] = PublishFailure(r, "publish")]
               /\ UNCHANGED published
  /\ UNCHANGED <<users, nextUserId, reports, nextReportId, exchanges, client_token, now>>

\* produce_new_threat_report: the Message with threat_report.to_bytes(),
\* which takes _sa_instance_state off the instance, then exchange.publish,
\* the close of the connection and the return of the service method.
ProducerPublish(s) ==
  /\ rq[s].pc = "publish"
  /\ LET threat_dict == pop_instance_state(
                          InstanceDict(rq[s].report, rq[s].instance_state))
         r == [rq[s] EXCEPT !.report = threat_dict.report,
                            !.instance_state = threat_dict.instance_state,
                            !.publish_attempts = rq[s].publish_attempts + 1]
         message == NewThreatReportMessage(CHOOSE x \in r.report : TRUE)
     IN \E ok \in BOOLEAN :
          IF ok
          THEN /\ published' = Append(published, message)
               /\ rq' = [rq EXCEPT ![s] =
                           [r EXCEPT !.pc = "done", !.connection = "closed",
                                     !.resp = CreatedResponse(CHOOSE x \in r.report : TRUE)]]
          ELSE /\ rq' = [rq EXCEPT ![s] = PublishFailure(r, "publish")]
               /\ UNCHANGED published
  /\ UNCHANGED <<users, nextUserId, reports, nextReportId, exchanges, client_token, now>>

\* Variant: a get that takes the row it read out of the table.
GetThreatReport_Consuming(s) ==
  /\ rq[s].op = "get_report" /\ rq[s].pc = "get_threat_report"
  /\ LET found == SelectReportById(reports, rq[s].report_id)
     IN /\ rq' = [rq EXCEPT ![s].handler_ran = TRUE, ![s].pc = "done",
                    ![s].resp = IF found = {}
                                THEN ExceptionResponse("ThreatReportDoesNotExistsError",
                                                       "Threat report not found")
                                ELSE [Response(200, "success", "", SUCCESSFUL_RETRIEVAL)
                                        EXCEPT !.report = found]]
        /\ reports' = reports \ found
  /\ UNCHANGED <<users, nextUserId, nextReportId, published, exchanges, client_token, now>>

\* ThreatReportService.get_threat_report over the data access layer's
\* get_threat_report: scalar_one() of the selected rows.
GetThreatReport(s) ==
  /\ rq[s].op = "get_report" /\ rq[s].pc = "get_threat_report"
  /\ LET found == SelectReportById(reports, rq[s].report_id)
     IN rq' = [rq EXCEPT ![s].handler_ran = TRUE, ![s].pc = "done",
                 ![s].txn = end_transaction(found = {}),
                 ![s].resp = IF found = {}
                             THEN ExceptionResponse("ThreatReportDoesNotExistsError",
                                                    "Threat report not found")
                             ELSE [Response(200, "success", "", SUCCESSFUL_RETRIEVAL)
                                     EXCEPT !.report = found]]
  /\ UNCHANGED <<users, nextUserId, reports, nextReportId, published, exchanges, client_token, now>>

\* The program points at which a request waits on the thread pool, the
\* database or the broker.
CancellablePcs ==
  {"hash_password", "create_user", "get_user_by_email", "create_threat_report",
   "get_threat_report", "get_connection", "get_channel", "declare_exchange", "publish"}

\* The task of request s is cancelled while it waits: CancelledError is
\* raised at the await, the blocks it leaves roll the transaction back and
\* close the broker connection, and no handler catches it. A publish that
\* was in flight has reached the broker or has not.
Cancel(s) ==
  /\ rq[s].op # "idle" /\ rq[s].pc \in CancellablePcs
  /\ \E sent \in {FALSE, rq[s].pc = "publish"} :
       /\ published' = IF sent
                         THEN Append(published,
                                     NewThreatReportMessage(CHOOSE x \in rq[s].report : TRUE))
                         ELSE published
       /\ rq' = [rq EXCEPT ![s].pc = "done",
                           ![s].txn = IF rq[s].txn = "begun" THEN end_transaction(TRUE)
                                      ELSE rq[s].txn,
                           ![s].connection = IF rq[s].connection = "open" THEN "closed"
                                             ELSE rq[s].connection,
                           ![s].resp = Response(0, "", "CancelledError", "")]
  /\ UNCHANGED <<users, nextUserId, reports, nextReportId, exchanges, client_token, now>>

(* ------------------------------ pagination ----------------------------- *)
\* Query.offset and Query.limit: the query with one more clause applied.
offset(query, n) == Append(query, [clause |-> "offset", value |-> n])
limit(query, n) == Append(query, [clause |-> "limit", value |-> n])

\* Variant: the offset counts the requested page as well.
paginate_OffByOnePage(query, page, page_size) ==
  limit(offset(query, page * page_size), page_size)

\* PageNumberPagination.paginate
paginate(query, page, page_size) ==
  limit(offset(query, (page - 1) * page_size), page_size)

\* A caller has a query and asks for a page of it.
ReceivePaginate(s, page, page_size) ==
  /\ rq[s].op = "idle"
  /\ rq' = [rq EXCEPT ![s] = [IdleRequest EXCEPT
              !.op = "paginate", !.via = "service", !.pc = "paginate",
              !.page = page, !.page_size = page_size]]
  /\ UNCHANGED <<users, nextUserId, reports, nextReportId, published, exchanges, client_token, now>>

\* The call of PageNumberPagination.paginate and its return.
Paginate(s) ==
  /\ rq[s].op = "paginate" /\ rq[s].pc = "paginate"
  /\ rq' = [rq EXCEPT ![s].query = paginate(rq[s].query, rq[s].page, rq[s].page_size),
                      ![s].pc = "done"]
  /\ UNCHANGED <<users, nextUserId, reports, nextReportId, published, exchanges, client_token, now>>

(* --------------------------- specifications ---------------------------- *)
Pages == 1..MaxPage
PageSizes == 1..MaxPageSize

\* The pagination helper as its callers use it.
PageActions ==
  \/ \E s \in Slots, page \in Pages, page_size \in PageSizes : ReceivePaginate(s, page, page_size)
  \/ \E s \in Slots : Paginate(s)

\* The values of jwt_lifetime_minutes the settings accept: any integer.
SettingsLifetimes == (0 - 1)..jwt_lifetime_minutes

\* A deployment whose key signs, whose tokens live jwt_lifetime_minutes and
\* whose inserts meet no violation but those of the two unique constraints.
Deployed ==
  [keys |-> {PrivateKey}, accepts |-> {TRUE}, builds |-> BcryptBuilds,
   lifetimes |-> {jwt_lifetime_minutes}, violations |-> {}]

\* Every deployment: the key may be absent, the signing may be rejected and
\* the lifetime is any the settings accept.
AnyDeployment ==
  [keys |-> {PrivateKey, NoKey}, accepts |-> BOOLEAN, builds |-> BcryptBuilds,
   lifetimes |-> SettingsLifetimes, violations |-> OtherViolations]

\* A deployment on a bcrypt that truncates long passwords.
DeployedTruncating == [Deployed EXCEPT !.builds = {"truncates"}]

\* A deployment whose inserts may meet the other integrity violations.
DeployedViolating == [Deployed EXCEPT !.violations = OtherViolations]

ReportIds == 1..MaxReports

\* The credential subsystem: register and login over usernames U, emails E
\* and passwords P, in deployment D.
AuthActions(U, E, P, D) ==
  \/ \E s \in Slots, u \in U, e \in E, p \in P : ReceiveRegister(s, u, e, p)
  \/ \E s \in Slots : RegisterHashPassword(s, D.builds)
  \/ \E s \in Slots : CreateUser(s, D)
  \/ \E s \in Slots, e \in E, p \in P : ReceiveLogin(s, e, p)
  \/ \E s \in Slots : GetUserByEmail(s)
  \/ \E s \in Slots : CheckPasswordAndGrantToken(s, D)

\* The /threats routes as HTTP clients reach them.
GateActions ==
  \/ \E s \in Slots, c \in PresentableCredentials(client_token), i \in ReportInputs :
       ReceiveCreateReport(s, "router", c, i)
  \/ \E s \in Slots, c \in PresentableCredentials(client_token), id \in ReportIds :
       ReceiveGetReport(s, "router", c, id)
  \/ \E s \in Slots : VerifyTokenDependency(s)

\* The report service as its callers use it, with the publisher.
ReportActions ==
  \/ \E s \in Slots, i \in ReportInputs : ReceiveCreateReport(s, "service", {}, i)
  \/ \E s \in Slots, id \in ReportIds : ReceiveGetReport(s, "service", {}, id)
  \/ \E s \in Slots : CreateThreatReport(s)
  \/ \E s \in Slots : ProducerGetConnection(s)
  \/ \E s \in Slots : ProducerGetChannel(s)
  \/ \E s \in Slots : ProducerDeclareExchange(s)
  \/ \E s \in Slots : ProducerPublish(s)
  \/ \E s \in Slots : GetThreatReport(s)

Common ==
  \/ \E s \in Slots : SendResponse(s)
  \/ Tick

\* One user's registration and logins with passwords longer than bcrypt's
\* key, on a bcrypt that truncates them.
NextHash ==
  \/ AuthActions({"alice"}, {"alice@x.com"}, LongPasswords \cup {"pw123"}, DeployedTruncating)
  \/ \E s \in Slots : SendResponse(s)
SpecHash == Init /\ [][NextHash]_vars

\* The whole service.
Next ==
  \/ AuthActions(Usernames, Emails, Passwords, AnyDeployment)
  \/ GateActions \/ ReportActions \/ PageActions \/ Common
Spec == Init /\ [][Next]_vars

\* Registration and login alone, in a deployment whose key signs.
NextAuth == AuthActions(Usernames, Emails, Passwords, Deployed) \/ \E s \in Slots : SendResponse(s)
SpecAuth == Init /\ [][NextAuth]_vars

\* One user's registration and logins, and the requests that user's client
\* sends to the /threats routes.
NextGate == AuthActions({"alice"}, {"alice@x.com"}, {"pw123"}, Deployed) \/ GateActions \/ Common
SpecGate == Init /\ [][NextGate]_vars

\* The pagination helper alone.
NextPage == PageActions \/ \E s \in Slots : SendResponse(s)
SpecPage == Init /\ [][NextPage]_vars

\* Registration and login in every deployment.
NextIssue ==
  \/ AuthActions({"alice"}, Emails, Passwords, AnyDeployment)
  \/ \E s \in Slots : SendResponse(s)
SpecIssue == Init /\ [][NextIssue]_vars

\* Registrations and logins whose inserts may meet any integrity violation.
NextInsert ==
  \/ AuthActions(Usernames, Emails, {"pw123"}, DeployedViolating)
  \/ \E s \in Slots : SendResponse(s)

SpecInsert == Init /\ [][NextInsert]_vars

\* One user's registration and logins while the rows may be deactivated.
NextActive ==
  \/ AuthActions({"alice"}, Emails, Passwords, Deployed)
  \/ \E s \in Slots : SendResponse(s)
  \/ \E id \in 1..(nextUserId - 1) : Deactivate(id)

SpecActive == Init /\ [][NextActive]_vars

\* A statement runs inside the transaction its operation has begun.
StatementInTransaction ==
  \A s \in Slots : (rq[s].pc \in DalPcs /\ rq'[s].pc # rq[s].pc) => rq[s].txn = "begun"

\* A request of the credential subsystem beside a request of the reports.
OneOfEach ==
  /\ rq'["r1"].op \in {"idle", "register", "authenticate"}
  /\ rq'["r2"].op \in {"idle", "create_report", "get_report"}

\* Both subsystems with the steps of their transactions: the begin, then the
\* statement with the commit or the rollback that ends the block.
NextTxn ==
  \/ /\ \/ AuthActions({"alice"}, {"alice@x.com"}, {"pw123"}, AnyDeployment)
        \/ ReportActions
        \/ \E s \in Slots : SendResponse(s)
     /\ StatementInTransaction
     /\ OneOfEach
  \/ \E s \in Slots : BeginTransaction(s)

SpecTxn == Init /\ [][NextTxn]_vars

\* Both subsystems with the steps of their transactions, the teardown of
\* the session dependency and the cancellation of a waiting request.
NextSession ==
  \/ NextTxn
  \/ \E s \in Slots : CloseSession(s)
  \/ \E s \in Slots : Cancel(s)

SpecSession == Init /\ [][NextSession]_vars

\* The event loop runs one coroutine at a time: it is held by a request that
\* is inside a call it does not await.
EventLoopFree == \A s \in Slots : rq[s].pc # "checking_password"

\* The step the event loop gives request s: the resumption of its coroutine
\* when the loop is free, the end of its own synchronous call otherwise.
LoopStep(s, D) ==
  \/ /\ EventLoopFree
     /\ \/ RegisterHashPassword(s, D.builds)
        \/ CreateUser(s, D)
        \/ GetUserByEmail(s)
        \/ BeginCheckPassword(s)
        \/ SendResponse(s)
  \/ /\ rq[s].pc = "checking_password"
     /\ CheckPasswordAndGrantToken(s, D)

\* Registrations and logins as the single event loop schedules them, the
\* time check_password takes included.
NextLoop ==
  \/ /\ EventLoopFree
     /\ \/ \E s \in Slots, u \in Usernames, e \in Emails : ReceiveRegister(s, u, e, "pw123")
        \/ \E s \in Slots, e \in Emails, p \in Passwords : ReceiveLogin(s, e, p)
  \/ \E s \in Slots : LoopStep(s, Deployed)

SpecLoop == Init /\ [][NextLoop]_vars

\* The report service and the publisher alone.
NextReport == ReportActions \/ Common
SpecReport == Init /\ [][NextReport]_vars


(* ------------------------------ properties ----------------------------- *)
CreateDone(s) == rq[s].op = "create_report" /\ rq[s].pc = "done"
RegisterDone(s) == rq[s].op = "register" /\ rq[s].pc = "done"
LoginDone(s) == rq[s].op = "authenticate" /\ rq[s].pc = "done"

\* C1: a create-and-notify call whose insert committed returns the persisted
\* report with status 'created' and code 201 whatever happened to the
\* publish: either the message was accepted by the broker or the failure
\* was logged, and no error reaches the caller.
C1_PublishFailureIsolated ==
  \A s \in Slots :
    (CreateDone(s) /\ rq[s].report # {}) =>
      /\ rq[s].resp.code = 201
      /\ rq[s].resp.status = "created"
      /\ rq[s].resp.error = ""
      /\ rq[s].resp.report = rq[s].report
      /\ rq[s].resp.report \subseteq reports
      /\ \/ rq[s].logged # {}
         \/ \E i \in 1..Len(published) :
              \E r \in rq[s].report : published[i] = NewThreatReportMessage(r)

\* A call whose publish was rejected after the connection, the channel and
\* the exchange were there has returned the persisted report.
C1_Witness ==
  \E s \in Slots :
    /\ CreateDone(s) /\ rq[s].resp.code = 201
    /\ rq[s].logged = {"publish"}
    /\ rq[s].resp.report \subseteq reports /\ rq[s].resp.report # {}

LoginNoUser(s) == LoginDone(s) /\ rq[s].user = {}
LoginWrongPassword(s) ==
  /\ LoginDone(s) /\ rq[s].user # {}
  /\ \A u \in rq[s].user : u.hashed_password.digest # <<u.hashed_password.salt, rq[s].password>>

RegisteredWith(s) ==
  {u \in rq[s].registered :
     /\ u.email = rq[s].email
     /\ \E salt \in Salts : u.hashed_password = hash_password(rq[s].password, salt)}

C4_DuplicateNamesField ==
  \A s \in Slots :
    RegisterDone(s) =>
      /\ rq[s].violated = {EMAIL_KEY} =>
           /\ rq[s].resp.error = "DuplicateUserError"
           /\ rq[s].resp.message = DUPLICATE_EMAIL_MESSAGE
      /\ rq[s].violated = {USERNAME_KEY} =>
           /\ rq[s].resp.error = "DuplicateUserError"
           /\ rq[s].resp.message = DUPLICATE_USERNAME_MESSAGE

UsersUnique ==
  \A u, v \in users : (u.username = v.username \/ u.email = v.email) => u = v

\* A step in which the insert of register s ends.
CreateUserEnds(s) == rq[s].pc = "create_user" /\ rq'[s].pc = "done"

RegisterAtomic ==
  \A s \in Slots :
    (CreateUserEnds(s) /\ \E u \in users : u.username = rq[s].username \/ u.email = rq[s].email) =>
      /\ users' = users
      /\ rq'[s].resp.code # 201
      /\ rq'[s].resp.user = {}

\* C5: no two user rows share a username or an email in any reachable state,
\* and a register whose username or email is taken adds no row and leaves
\* the table as it was.
C5_UniqueAndAtomic == []UsersUnique /\ [][RegisterAtomic]_vars

\* A register was refused while the table held two rows.
C5_Witness ==
  \E s \in Slots :
    RegisterDone(s) /\ rq[s].violated # {} /\ Cardinality(users) = 2


\* A request to a /threats route that came through the router, and what
\* it carried.
ThreatViaRouter(s) ==
  rq[s].op \in {"create_report", "get_report"} /\ rq[s].via = "router"
PastDependency(s) == ThreatViaRouter(s) /\ rq[s].pc # "verify_token_dependency"
SchemeOf(s) == (CHOOSE c \in rq[s].credentials : TRUE).scheme
TokenOf(s) == (CHOOSE c \in rq[s].credentials : TRUE).credentials
HandlerPcs ==
  {"create_threat_report", "get_threat_report", "get_connection", "get_channel",
   "declare_exchange", "publish"}

\* C6 (as claimed): the verification of a token whose expiry is earlier than
\* the time of the verification fails with the token-expired error, whoever
\* signed the token.
C6_ExpiredTokenFailsExpired ==
  \A s \in Slots :
    (/\ PastDependency(s) /\ rq[s].credentials # {}
     /\ SchemeOf(s) = TOKEN_TYPE
     /\ TokenOf(s).signed_with \in {PrivateKey, ForeignKey}
     /\ TokenOf(s).payload.exp < rq[s].verify_time) =>
      /\ rq[s].resp.message = TOKEN_EXPIRED
      /\ rq[s].resp.code = 401

\* C7 (as claimed): the verification of a token that the service's private
\* key did not sign, or that is no token at all, fails with the
\* token-invalid error and yields no claims.
C7_ForeignTokenFailsInvalid ==
  \A s \in Slots :
    (/\ PastDependency(s) /\ rq[s].credentials # {}
     /\ SchemeOf(s) = TOKEN_TYPE
     /\ \/ TokenOf(s) = MalformedToken
        \/ /\ TokenOf(s).signed_with = ForeignKey
           /\ TokenOf(s).payload.exp >= rq[s].verify_time) =>
      /\ rq[s].resp.message = INVALID_TOKEN
      /\ rq[s].resp.code = 401
      /\ ~rq[s].verified

\* C8 (as claimed): a POST /threats/reports with the Bearer scheme and a
\* token that login issued and that has not expired ends with the report
\* inserted and a 201 response carrying it.
C8_ValidTokenAccepted ==
  \A s \in Slots :
    (/\ ThreatViaRouter(s) /\ rq[s].op = "create_report" /\ rq[s].pc = "done"
     /\ rq[s].credentials # {}
     /\ SchemeOf(s) = TOKEN_TYPE
     /\ TokenOf(s).signed_with = PrivateKey
     /\ rq[s].verify_time <= TokenOf(s).payload.exp) =>
      /\ rq[s].resp.code = 201
      /\ rq[s].resp.report # {}
      /\ rq[s].resp.report \subseteq reports

\* C9: a request that came through the /threats router is in its handler,
\* or has run it, or holds a created report, only if verify_token_dependency
\* was run for it and returned without error.
C9_HandlerOnlyAfterVerification ==
  \A s \in Slots :
    (ThreatViaRouter(s) /\ (rq[s].pc \in HandlerPcs \/ rq[s].handler_ran \/ rq[s].report # {})) =>
      rq[s].verified /\ rq[s].verify_attempted

\* A request whose verification ended with an error is finished and its
\* handler has not run.
C9_Witness ==
  \E s \in Slots :
    /\ ThreatViaRouter(s) /\ rq[s].pc = "done"
    /\ rq[s].verify_attempted /\ ~rq[s].verified
    /\ ~rq[s].handler_ran /\ rq[s].report = {} /\ rq[s].resp.report = {}

InvalidSchemeOutcome(s) ==
  /\ rq[s].pc = "done"
  /\ rq[s].resp.error = "UnauthorizedError"
  /\ rq[s].resp.message = INVALID_AUTH_SCHEME
  /\ rq[s].resp.code = 401
  /\ ~rq[s].verify_attempted

C11_SigningFailureIsInternal ==
  \A s \in Slots :
    (LoginDone(s) /\ rq[s].signing \in {"no_key", "rejected"}) =>
      /\ rq[s].resp.code = 500
      /\ rq[s].resp.status = "error"

\* The status the taxonomy gives the error of a finished request: 409 for a
\* taken username or email, 404 for a missing report, 401 for bad
\* credentials, for no credentials, for a scheme that is not the bearer
\* scheme and for a token that is expired, foreign or malformed, 500 for
\* every other error.
TaxonomyCode(s) ==
  IF rq[s].op = "register" /\ rq[s].violated # {} THEN 409
  ELSE IF rq[s].op = "get_report" /\ rq[s].handler_ran THEN 404
  ELSE IF LoginNoUser(s) \/ (LoginWrongPassword(s) /\ rq[s].signing = "") THEN 401
  ELSE IF ThreatViaRouter(s) /\ ~rq[s].handler_ran /\
          (\/ rq[s].credentials = {}
           \/ lower(SchemeOf(s)) # lower(TOKEN_TYPE)
           \/ TokenOf(s).signed_with # PrivateKey
           \/ TokenOf(s).payload.exp < rq[s].verify_time) THEN 401
  ELSE 500

\* C12 (as claimed): every request that ended with an error is answered with
\* the status of the error's category, and a 500 carries the generic message
\* and nothing of the exception's own text.
C12_StatusByCategory ==
  \A s \in Slots :
    (rq[s].pc = "done" /\ rq[s].resp.error # "") =>
      /\ rq[s].resp.code = TaxonomyCode(s)
      /\ rq[s].resp.code = 500 => rq[s].resp.message = INTERNAL_SERVER_ERROR

\* A step in which get_threat_report of request s ends.
GetThreatReportEnds(s) ==
  rq[s].op = "get_report" /\ rq[s].pc = "get_threat_report" /\ rq'[s].pc = "done"

GetThreatReportOutcome ==
  \A s \in Slots :
    GetThreatReportEnds(s) =>
      LET stored == {r \in reports : r.id = rq[s].report_id} IN
      IF stored = {}
      THEN /\ rq'[s].resp.error = "ThreatReportDoesNotExistsError"
           /\ rq'[s].resp.code = 404
           /\ rq'[s].resp.report = {}
      ELSE /\ rq'[s].resp.error = ""
           /\ rq'[s].resp.code = 200
           /\ rq'[s].resp.report = stored

\* C13: get_threat_report(id) ends with ThreatReportDoesNotExistsError,
\* answered 404, exactly when no stored report has that id, and otherwise
\* returns the stored report that has that id.
C13_GetFoundOrNotFound == [][GetThreatReportOutcome]_vars

\* With a report stored, one get has found it and another get, of an id
\* nothing is stored under, has ended with the not-found error.
C13_Witness ==
  \E s, t \in Slots :
    /\ rq[s].op = "get_report" /\ rq[s].pc = "done" /\ rq[s].resp.code = 404
    /\ rq[t].op = "get_report" /\ rq[t].pc = "done" /\ rq[t].resp.code = 200
    /\ rq[t].resp.report \subseteq reports /\ reports # {}

\* C14: every row a successful register persisted has is_active true, and
\* the record the register returned is that persisted row, is_active true.
C14_RegisteredIsActive ==
  /\ \A u \in users : u.is_active = TRUE
  /\ \A s \in Slots :
       (RegisterDone(s) /\ rq[s].resp.code = 201) =>
         /\ Cardinality(rq[s].resp.user) = 1
         /\ \A u \in rq[s].resp.user :
              /\ u \in users
              /\ u.is_active = TRUE
              /\ u.username = rq[s].username /\ u.email = rq[s].email

\* Two registers have succeeded and the second has just returned its row.
C14_Witness ==
  \E s \in Slots :
    /\ RegisterDone(s) /\ rq[s].resp.code = 201
    /\ \E u \in rq[s].resp.user : u.id = 2 /\ u.is_active /\ u \in users

\* What the broker contract asks of message m for the stored report r.
ContractMessage(m, r) ==
  /\ m.exchange = "threat_report_exchange"
  /\ m.routing_key = "threat_report.new"
  /\ m.delivery_mode = "PERSISTENT"
  /\ m.body.id = r.id
  /\ m.body.indicator_address = r.indicator_address
  /\ m.body.created_at = <<"str", r.created_at>>
  /\ \/ r.indicator_type = "IP" /\ m.body.indicator_type = "ip"
     \/ r.indicator_type = "URL" /\ m.body.indicator_type = "url"

ContractExchangeDeclared ==
  \E e \in exchanges :
    e.name = "threat_report_exchange" /\ e.type = "direct" /\ e.durable = TRUE

\* Every message the broker holds meets the contract for a stored report.
PublishedMeetContract ==
  \A i \in 1..Len(published) :
    /\ ContractExchangeDeclared
    /\ \E r \in reports : ContractMessage(published[i], r)

\* A step that publishes does so for the report its request just created,
\* with the exchange already declared.
PublishStepMeetsContract ==
  \A s \in Slots :
    (rq[s].pc = "publish" /\ rq'[s].pc = "done" /\ published' # published) =>
      /\ ContractExchangeDeclared
      /\ Len(published') = Len(published) + 1
      /\ \A r \in rq[s].report :
           r \in reports /\ ContractMessage(published'[Len(published')], r)

C16_TokenIffSamePassword ==
  \A s, t \in Slots :
    (/\ LoginDone(s) /\ RegisterDone(t) /\ rq[t].resp.code = 201
     /\ rq[s].email = rq[t].email
     /\ rq[t].resp.user \subseteq rq[s].registered) =>
      (rq[s].resp.token # {} <=> rq[s].password = rq[t].password)

\* C17 (as claimed): the claims of every token issued have exp later than
\* nbf and nbf not earlier than iat, whatever lifetime the settings hold.
C17_ExpiryAfterNotBefore ==
  \A s \in Slots :
    LoginDone(s) =>
      \A tok \in rq[s].resp.token :
        tok.payload.exp > tok.payload.nbf /\ tok.payload.nbf >= tok.payload.iat

\* C18: for every page >= 1 and page_size >= 1, paginate applies to the
\* query an offset of (page - 1) * page_size and then a limit of page_size,
\* each once and nothing else, and returns the query so made.
C18_PaginateOffsetThenLimit ==
  \A s \in Slots :
    (rq[s].op = "paginate" /\ rq[s].pc = "done") =>
      /\ rq[s].page >= 1 /\ rq[s].page_size >= 1
      /\ Len(rq[s].query) = 2
      /\ rq[s].query[1].clause = "offset"
      /\ rq[s].query[1].value + rq[s].page_size = rq[s].page * rq[s].page_size
      /\ rq[s].query[2].clause = "limit"
      /\ rq[s].query[2].value = rq[s].page_size

\* The last page of the largest size has been asked for: its offset is not 0.
C18_Witness ==
  \E s \in Slots :
    /\ rq[s].op = "paginate" /\ rq[s].pc = "done"
    /\ rq[s].page = MaxPage /\ rq[s].page_size = MaxPageSize
    /\ rq[s].query[1].value = (MaxPage - 1) * MaxPageSize

\* No step changes or removes a stored report.
ReportsKept == \A r \in reports : r \in reports'

\* A get that runs after the create call of its id has returned answers
\* with the column values that call returned.
GetReturnsWhatCreateReturned ==
  \A s, t \in Slots :
    (/\ GetThreatReportEnds(s)
     /\ CreateDone(t)
     /\ \E r \in rq[t].resp.report : r.id = rq[s].report_id) =>
      /\ rq'[s].resp.code = 200
      /\ rq'[s].resp.report = rq[t].resp.report

\* Every id has at most one stored report.
ReportIdsUnique == \A r, q \in reports : r.id = q.id => r = q

\* C19: a stored report is never changed or removed, whatever create and get
\* calls follow, and a get of its id returns the column values the create
\* call returned for it.
C19_ReportsImmutable ==
  /\ [][ReportsKept /\ GetReturnsWhatCreateReturned]_vars
  /\ []ReportIdsUnique

\* After the create of the second report returned it, a get of its id has
\* returned the same values.
C19_Witness ==
  \E s, t \in Slots :
    /\ rq[s].op = "get_report" /\ rq[s].pc = "done" /\ rq[s].report_id = 2
    /\ CreateDone(t) /\ rq[s].resp.report = rq[t].resp.report
    /\ rq[s].resp.report # {} /\ Cardinality(reports) = 2

ProducerPcs == {"get_connection", "get_channel", "declare_exchange", "publish"}

\* The producer has been called for request s.
ProducerInvoked(s) ==
  \/ rq[s].pc \in ProducerPcs
  \/ rq[s].connection # "none"
  \/ rq[s].publish_attempts > 0
  \/ rq[s].logged # {}

\* The producer runs for a request only with that request's committed row,
\* and every published message is of a committed row.
PublishOnlyCommitted ==
  /\ \A s \in Slots :
       ProducerInvoked(s) => rq[s].report # {} /\ rq[s].report \subseteq reports
  /\ \A i \in 1..Len(published) : \E r \in reports : published[i].body.id = r.id

\* A create whose insert failed.
InsertFailed(s) == CreateDone(s) /\ rq[s].report = {} /\ rq[s].handler_ran

\* A failed insert ends the call with the insert's error; no connection was
\* opened and no publish attempted for it.
FailedInsertPropagates ==
  \A s \in Slots :
    InsertFailed(s) =>
      /\ rq[s].resp.error = "SQLAlchemyError"
      /\ rq[s].resp.report = {}
      /\ ~ProducerInvoked(s)

\* The step in which an insert fails stores and publishes nothing.
FailedInsertStep ==
  \A s \in Slots :
    (rq[s].pc = "create_threat_report" /\ rq'[s].pc = "done") =>
      reports' = reports /\ published' = published /\ exchanges' = exchanges

\* C20: the publisher is invoked for a report only after the insert of that
\* report has committed; when the insert fails no broker connection is
\* opened, no message is published and the insert's error reaches the caller.
C20_PublishAfterCommit ==
  /\ [](PublishOnlyCommitted /\ FailedInsertPropagates)
  /\ [][FailedInsertStep]_vars

\* One create has failed in its insert while the message of another create,
\* whose insert committed, is with the broker.
C20_Witness ==
  \E s \in Slots :
    /\ InsertFailed(s) /\ rq[s].resp.code = 500
    /\ Len(published) = 1 /\ Cardinality(reports) = 1

\* The messages of report r that the broker holds.
MessagesOf(r, msgs) == {i \in 1..Len(msgs) : msgs[i].body.id = r.id}

\* Report r is with the producer of some request in flight.
BeingPublished(r) ==
  \E s \in Slots : r \in rq[s].report /\ rq[s].pc \in ProducerPcs

\* No request tries to publish twice and no report has two messages.
PublishedOnce ==
  /\ \A s \in Slots : rq[s].publish_attempts <= 1
  /\ \A r \in reports : Cardinality(MessagesOf(r, published)) <= 1

\* A report that has no message and is no longer with a producer gets none.
NeverPublishedLater ==
  \A r \in reports :
    (MessagesOf(r, published) = {} /\ ~BeingPublished(r)) =>
      MessagesOf(r, published') = {}

\* C21: each create-and-notify call makes at most one publish attempt for
\* its report; a report whose publish failed is never delivered later, and
\* no report is published more than once.
C21_AtMostOnePublish == []PublishedOnce /\ [][NeverPublishedLater]_vars

\* The call whose publish was rejected has returned and its slot is free
\* again; its report is stored and the broker holds nothing.
C21_Witness ==
  /\ \A s \in Slots : rq[s].op = "idle"
  /\ Cardinality(reports) = MaxReports
  /\ published = <<>>
  /\ exchanges # {}

\* A publish call that is over has no open connection, and the connections
\* that are open belong to one publish call each.
ConnectionsScoped ==
  /\ \A s \in Slots :
       rq[s].pc \notin ProducerPcs => rq[s].connection # "open"
  /\ \A s \in Slots :
       (rq[s].channel \/ rq[s].exchange) => rq[s].connection # "none"
  /\ \A s, t \in Slots :
       (s # t /\ rq[s].connection = "open" /\ rq[t].connection = "open") =>
         rq[s].connection_id # rq[t].connection_id

\* The step in which the publish of s fails leaves every other request, its
\* connection and its channel as they were.
FailureIsLocal ==
  \A s, t \in Slots :
    (s # t /\ rq[s].logged = {} /\ rq'[s].logged # {}) => rq'[t] = rq[t]

\* C22: each publish call opens a connection and a channel of its own, the
\* connection is closed when the call has returned or failed at whichever
\* step, no connection serves two publishes, and the failure of one publish
\* leaves a concurrent publish untouched.
C22_ConnectionPerPublish == []ConnectionsScoped /\ [][FailureIsLocal]_vars

\* One publish has failed on its channel and closed its connection while the
\* other, on its own open connection, is about to publish.
C22_Witness ==
  \E s, t \in Slots :
    /\ CreateDone(s) /\ rq[s].logged = {"get_channel"} /\ rq[s].connection = "closed"
    /\ rq[t].pc = "publish" /\ rq[t].connection = "open"
    /\ rq[t].connection_id # rq[s].connection_id

\* Registers s and t ask for the same username or the same email.
SameIdentity(s, t) ==
  rq[s].username = rq[t].username \/ rq[s].email = rq[t].email

\* No row but the ones s and t made holds a username or an email of theirs.
FreeBefore(s, t) ==
  \A u \in users :
    (u.username \in {rq[s].username, rq[t].username} \/ u.email \in {rq[s].email, rq[t].email})
      => u \in rq[s].resp.user \cup rq[t].resp.user

\* C23: of two registers of the same email or the same username, in any
\* interleaving, one persists a user and the other fails with
\* DuplicateUserError raised from the insert itself; never do both succeed,
\* and both fail only if the name had been taken before them.
C23_ConcurrentRegisters ==
  \A s, t \in Slots :
    (s # t /\ RegisterDone(s) /\ RegisterDone(t) /\ SameIdentity(s, t)) =>
      /\ ~(rq[s].resp.code = 201 /\ rq[t].resp.code = 201)
      /\ rq[s].resp.code = 201 =>
           /\ rq[t].resp.error = "DuplicateUserError"
           /\ rq[t].violated # {}
           /\ rq[t].resp.user = {}
      /\ FreeBefore(s, t) => (rq[s].resp.code = 201 \/ rq[t].resp.code = 201)

\* Two registers of one email under two usernames have both ended: one row
\* is stored, and the other register was refused for the email constraint.
C23_Witness ==
  \E s, t \in Slots :
    /\ s # t /\ RegisterDone(s) /\ RegisterDone(t)
    /\ rq[s].email = rq[t].email /\ rq[s].username # rq[t].username
    /\ rq[s].resp.code = 201 /\ rq[t].resp.error = "DuplicateUserError"
    /\ rq[t].violated = {EMAIL_KEY}
    /\ users = rq[s].resp.user


\* C24: a register whose insert fails with an integrity violation of another
\* constraint than the username's and the email's ends in that IntegrityError,
\* never in DuplicateUserError, and the step adds no user.
OtherViolation(s) ==
  /\ RegisterDone(s)
  /\ rq[s].violated # {}
  /\ rq[s].violated \cap {USERNAME_KEY, EMAIL_KEY} = {}

C24_OtherViolationPropagates ==
  \A s \in Slots : OtherViolation(s) =>
    /\ rq[s].resp.error = "IntegrityError"
    /\ rq[s].resp.user = {}


\* C25: while a register is hashing its password or an authenticate is
\* checking one, every other request in flight can take a step.
InFlight(s) == rq[s].op # "idle"
Hashing(s) == rq[s].op = "register" /\ rq[s].pc = "hash_password"
Checking(s) == rq[s].op = "authenticate" /\ rq[s].pc = "checking_password"

C25_HashingOffTheLoop ==
  \A s, t \in Slots :
    (s # t /\ (Hashing(s) \/ Checking(s)) /\ InFlight(t)) => ENABLED LoopStep(t, Deployed)

\* The half of it that register keeps: hashing runs in the thread pool.
RegisterHashingOffTheLoop ==
  \A s, t \in Slots :
    (s # t /\ Hashing(s) /\ InFlight(t)) => ENABLED LoopStep(t, Deployed)

\* C26: a lookup by the email of a deactivated user finds no user and the
\* authenticate ends with InvalidUserCredentials and no token, whatever the
\* password; a token is only ever issued for a row read with is_active true.
Deactivated(email) ==
  /\ \E u \in users : u.email = email
  /\ \A u \in users : u.email = email => u.is_active = FALSE

GetUserByEmailEnds(s) == rq[s].pc = "get_user_by_email" /\ rq'[s].pc # "get_user_by_email"

LookupOfDeactivatedFails ==
  \A s \in Slots : (GetUserByEmailEnds(s) /\ Deactivated(rq[s].email)) =>
    /\ rq'[s].pc = "done"
    /\ rq'[s].user = {}
    /\ rq'[s].resp.error = "InvalidUserCredentials"
    /\ rq'[s].resp.message = INVALID_CREDENTIALS
    /\ rq'[s].resp.token = {}

TokenOnlyForActive ==
  \A s \in Slots : (LoginDone(s) /\ rq[s].resp.token # {}) =>
    /\ rq[s].user # {}
    /\ \A u \in rq[s].user : u.is_active = TRUE /\ u.email = rq[s].email

C26_InactiveNeverAuthenticates == []TokenOnlyForActive /\ [][LookupOfDeactivatedFails]_vars

\* A login with the correct password of a deactivated user has failed.
C26_Witness ==
  \E s \in Slots :
    /\ LoginDone(s) /\ Deactivated(rq[s].email)
    /\ rq[s].registered # {}
    /\ \E u \in users : u.email = rq[s].email /\ check_password(rq[s].password, u.hashed_password)
    /\ rq[s].resp.error = "InvalidUserCredentials"
    /\ rq[s].user = {}

\* C27: a transaction is begun inside a data-access operation only, and the
\* step that ends the operation has committed it when the operation returns
\* and rolled it back when it raises; no request that has left its operation,
\* and no idle slot, holds a transaction that is still open.
OpenOnlyInsideOperation ==
  \A s \in Slots : rq[s].txn = "begun" => rq[s].pc \in DalPcs

DalReturned(s) ==
  \/ rq[s].pc = "create_user" /\ rq'[s].resp.code = 201
  \/ rq[s].pc = "get_user_by_email" /\ rq'[s].pc = "check_password"
  \/ rq[s].pc = "create_threat_report" /\ rq'[s].report # {}
  \/ rq[s].pc = "get_threat_report" /\ rq'[s].resp.code = 200

OperationEndsTransaction ==
  \A s \in Slots : (rq[s].pc \in DalPcs /\ rq'[s].pc # rq[s].pc) =>
    /\ rq[s].txn = "begun"
    /\ rq'[s].txn = IF DalReturned(s) THEN "committed" ELSE "rolled_back"

OneTransactionPerOperation ==
  \A s \in Slots : (rq[s].txn # "begun" /\ rq'[s].txn = "begun") =>
    rq[s].txn = "none" /\ rq[s].pc \in DalPcs /\ rq'[s].pc = rq[s].pc

C27_TransactionPerOperation ==
  /\ []OpenOnlyInsideOperation
  /\ [][OperationEndsTransaction /\ OneTransactionPerOperation]_vars

\* One request's operation has committed and the other's has rolled back.
C27_Witness ==
  \E s, t \in Slots :
    /\ rq[s].pc \notin DalPcs /\ rq[s].txn = "committed"
    /\ rq[t].pc = "done" /\ rq[t].txn = "rolled_back" /\ rq[t].resp.error # ""

\* C28: the session handed to a request is closed when the request ends,
\* however it ends: with a response, a domain error, a SQLAlchemy error (its
\* transaction rolled back), another exception, or a cancellation while it
\* waited on the thread pool, the database or the broker.
SQLAlchemyErrors == {"SQLAlchemyError", "IntegrityError"}

NoSessionLeftOpen ==
  \A s \in Slots : rq[s].op = "idle" => rq[s].session = "closed"

RequestEnds(s) == rq[s].pc = "done" /\ rq[s].session = "open" /\ rq'[s] # rq[s]

TeardownCloses ==
  \A s \in Slots : RequestEnds(s) =>
    /\ rq'[s].session = "closed"
    /\ rq[s].txn # "begun"
    /\ rq[s].resp.error \in SQLAlchemyErrors => rq[s].txn = "rolled_back"

C28_SessionClosedOnEveryPath == []NoSessionLeftOpen /\ [][TeardownCloses]_vars

\* The session of a request cancelled inside its transaction is closed
\* beside the session of a request that a domain error ended.
C28_Witness ==
  \E s, t \in Slots :
    /\ rq[s].pc = "done" /\ rq[s].resp.error = "CancelledError"
    /\ rq[s].txn = "rolled_back" /\ rq[s].session = "closed"
    /\ rq[t].pc = "done" /\ rq[t].resp.error \in DoesNotExistErrors \cup DuplicateResourceErrors
    /\ rq[t].session = "closed"

\* C29: the record create_threat_and_notify_threat_report returns after a
\* publish attempt, failed or not, is the row the insert returned, column for
\* column, and to_bytes run again on it gives the bytes it gave before.
Serialized(s) ==
  /\ rq[s].op = "create_report" /\ rq[s].pc = "done" /\ rq[s].resp.code = 201
  /\ rq[s].publish_attempts > 0

ReturnedIsInserted ==
  \A s \in Slots : Serialized(s) =>
    /\ Cardinality(rq[s].resp.report) = 1
    /\ rq[s].resp.report \subseteq reports
    /\ rq[s].resp.report = rq[s].report

to_bytesAgain(s) ==
  to_bytes(CHOOSE x \in pop_instance_state(
                          InstanceDict(rq[s].report, rq[s].instance_state)).report : TRUE)

SameBytesAgain ==
  \A s \in Slots : Serialized(s) =>
    /\ to_bytesAgain(s) = to_bytes(CHOOSE x \in rq[s].resp.report : TRUE)
    /\ \A i \in 1..Len(published) :
         published[i].body.id \in {x.id : x \in rq[s].report} =>
           published[i].body = to_bytesAgain(s)

C29_SerializingKeepsReport == ReturnedIsInserted /\ SameBytesAgain

\* One create whose publish was rejected after the report was serialized,
\* beside one whose publish went through.
C29_Witness ==
  \E s, t \in Slots :
    /\ Serialized(s) /\ rq[s].logged = {"publish"} /\ ~rq[s].instance_state
    /\ Serialized(t) /\ rq[t].logged = {} /\ ~rq[t].instance_state
    /\ rq[s].resp.report \cup rq[t].resp.report \subseteq reports

\* C30: an authenticate, failed or not, leaves the user rows as they are and
\* stores nothing about its token; the rows change only by the step that
\* ends a register with success, which adds exactly one row.
AuthenticateStep(s) == rq[s].op = "authenticate" /\ rq'[s] # rq[s]

RegisterSucceeds(s) ==
  /\ rq[s].op = "register" /\ rq[s].pc = "create_user"
  /\ rq'[s].pc = "done" /\ rq'[s].resp.code = 201

AuthenticateStoresNothing ==
  \A s \in Slots : AuthenticateStep(s) =>
    UNCHANGED <<users, nextUserId, reports, nextReportId, published, exchanges>>

UsersChangeByRegisterOnly ==
  users' # users =>
    \E s \in Slots :
      /\ RegisterSucceeds(s)
      /\ users \subseteq users'
      /\ users' \ users = rq'[s].resp.user
      /\ Cardinality(users' \ users) = 1

RegisterFailureAddsNothing ==
  \A s \in Slots :
    (rq[s].op = "register" /\ rq'[s] # rq[s] /\ ~RegisterSucceeds(s)) => users' = users

C30_UsersChangeOnlyByRegister ==
  [][AuthenticateStoresNothing /\ UsersChangeByRegisterOnly /\ RegisterFailureAddsNothing]_vars

\* A login has issued a token beside a register that has added the second
\* row.
C30_Witness ==
  \E s, t \in Slots :
    /\ LoginDone(s) /\ rq[s].resp.token # {}
    /\ RegisterDone(t) /\ rq[t].resp.code = 201
    /\ Cardinality(users) = 2
====
